---- MODULE Spec2Model ----
(***************************************************************************)
(* A model of the generic testing harness (generic_testing.py) and of the  *)
(* iterable comparison layer of the test generator (test_generator.py).    *)
(*                                                                         *)
(* Three specifications share the variables:                               *)
(*   Spec    GenericTesting.run_tests over a list of raw test cases, with  *)
(*           the target function's behaviour as an input of each call;     *)
(*   SpecCR  GenericTesting._compare_results applied to drawn inputs;      *)
(*   SpecIH  iterable_handler.compare applied to drawn inputs.             *)
(***************************************************************************)
EXTENDS Naturals, Sequences, FiniteSets

VARIABLES
    pc,            \* position in run_tests: idle / loop / parse / call / report / raised / done
    n,             \* len(test_cases) of the run
    print_args,    \* the print_args parameter of run_tests
    i,             \* the loop index of run_tests (0-based, as enumerate gives it)
    failed_tests,  \* the failed_tests list of run_tests
    test,          \* the raw case of the current iteration
    parsed,        \* what _get_args_and_exception returned for it
    calls,         \* the 1-based case numbers func was invoked for, in order
    call,          \* the arguments of the latest invocation of func
    outcome,       \* what func did in the latest invocation
    res,           \* the local res of _test_function
    failure,       \* the local failure of _test_function ("None" or the reason)
    propagated,    \* the kind of the exception that left run_tests ("None" if none)
    cr,            \* one application of _compare_results
    ih             \* one application of iterable_handler.compare

runVars == <<pc, n, print_args, i, failed_tests, test, parsed, calls, call,
             outcome, res, failure, propagated>>
vars == <<pc, n, print_args, i, failed_tests, test, parsed, calls, call,
          outcome, res, failure, propagated, cr, ih>>

(***************************************************************************)
(* Bounds of the model.                                                    *)
(***************************************************************************)
MaxCases == 2
MaxElems == 2
MaxLen == 2

(***************************************************************************)
(* Python values.  A value carries its type (kind), its printed form for a *)
(* scalar (val), its elements in iteration order for a list, tuple, set or *)
(* array and its values for a dict (items), and a dict's keys (keys).      *)
(***************************************************************************)
Scalar(k, v) == [kind |-> k, val |-> v, items |-> <<>>, keys |-> <<>>]
Container(k, s) == [kind |-> k, val |-> "", items |-> s, keys |-> <<>>]
IntV(v) == Scalar("int", v)
StrV(v) == Scalar("str", v)
NoneV == Scalar("NoneType", "None")
TrueV == Scalar("bool", "True")
FalseV == Scalar("bool", "False")
Wildcard == StrV("_")
ListV(s) == Container("list", s)
TupleV(s) == Container("tuple", s)

\* All sequences over S of length at most m.
SeqsUpTo(S, m) == UNION {[1..k -> S] : k \in 0..m}

(***************************************************************************)
(* The exception classes used, with Python's class hierarchy.              *)
(***************************************************************************)
Base == [BaseException |-> "object", Exception |-> "BaseException",
         KeyboardInterrupt |-> "BaseException",
         ArithmeticError |-> "Exception", ZeroDivisionError |-> "ArithmeticError",
         TypeError |-> "Exception", AssertionError |-> "Exception",
         int |-> "object"]

RECURSIVE IsSubclass(_, _)
IsSubclass(c, d) ==
    IF c = d THEN TRUE
    ELSE IF c = "object" THEN FALSE
    ELSE IsSubclass(Base[c], d)

(***************************************************************************)
(* The elements of a raw test case.  A plain element is a value; a dict    *)
(* element has the set of its keys and the values stored under the keys    *)
(* the parser reads ("err", "expect", "not_expect", "kwargs", "raise_err").*)
(* The value of "err" is "_" or the name of a class.                       *)
(***************************************************************************)
Arg(v) == [isdict |-> FALSE, val |-> v, keys |-> {}, err |-> "None",
           expect |-> NoneV, not_expect |-> NoneV, kwargs |-> NoneV,
           raise_err |-> NoneV]
EmptyDict == [isdict |-> TRUE, val |-> NoneV, keys |-> {}, err |-> "None",
              expect |-> NoneV, not_expect |-> NoneV, kwargs |-> NoneV,
              raise_err |-> NoneV]
ErrDict(e) == [EmptyDict EXCEPT !.keys = {"err"}, !.err = e]
ExpectDict(v) == [EmptyDict EXCEPT !.keys = {"expect"}, !.expect = v]
NotExpectDict(v) == [EmptyDict EXCEPT !.keys = {"not_expect"}, !.not_expect = v]
KwargsDict(flag) == [EmptyDict EXCEPT !.keys = {"kwargs", "c"}, !.kwargs = flag]
WithRaiseErr(d, r) == [d EXCEPT !.keys = @ \cup {"raise_err"}, !.raise_err = r]

\* The elements the cases are drawn from.
Elements ==
    { Arg(IntV("1")),
      ErrDict("_"), ErrDict("ArithmeticError"), ErrDict("KeyboardInterrupt"),
      ErrDict("int"),
      ExpectDict(IntV("1")), ExpectDict(Wildcard), ExpectDict(NoneV),
      ExpectDict(TupleV(<<IntV("1"), Wildcard>>)),
      NotExpectDict(IntV("1")),
      NotExpectDict(TupleV(<<IntV("1"), IntV("1")>>)),
      KwargsDict(TrueV), KwargsDict(FalseV),
      WithRaiseErr(EmptyDict, TrueV),
      WithRaiseErr(EmptyDict, IntV("1")),
      WithRaiseErr(ErrDict("ArithmeticError"), TrueV),
      WithRaiseErr(ExpectDict(IntV("1")), TrueV),
      WithRaiseErr(NotExpectDict(IntV("1")), TrueV),
      WithRaiseErr(KwargsDict(TrueV), TrueV) }

\* The raw cases: lists of at most MaxElems elements.
Cases == SeqsUpTo(Elements, MaxElems)

(***************************************************************************)
(* What the target function can do when invoked: return a value or raise   *)
(* an exception of some class.                                             *)
(***************************************************************************)
Returns(v) == [raises |-> "None", value |-> v]
Raises(k) == [raises |-> k, value |-> NoneV]
NoOutcome == [raises |-> "NoCall", value |-> NoneV]
Outcomes ==
    {Returns(v) : v \in {IntV("1"), IntV("2"), NoneV,
                         TupleV(<<IntV("1"), IntV("2")>>)}}
    \cup {Raises(k) : k \in {"ZeroDivisionError", "TypeError", "KeyboardInterrupt"}}

(***************************************************************************)
(* GenericTesting._compare_results                                         *)
(***************************************************************************)
\* Python's != on the values of the model (which hold no two values of
\* different types that Python counts equal, such as 1 and 1.0).
PyNe(a, b) == a # b

IsListOrTuple(v) == v.kind \in {"list", "tuple"}

\* The loop over zip(res, expected_value): some position returns False.
ZipMismatch(r, e) ==
    \E k \in 1..Len(e) : PyNe(e[k], Wildcard) /\ PyNe(r[k], e[k])

\* CompareResults with the wildcard test of the scalar branch left out.
CompareResultsNoWildcard(r, expected_value) ==
    IF IsListOrTuple(expected_value) /\ IsListOrTuple(r)
    THEN IF Len(expected_value.items) # Len(r.items)
         THEN FALSE
         ELSE ~ZipMismatch(r.items, expected_value.items)
    ELSE ~PyNe(r, expected_value)

\* CompareResults without the length test: zip stops at the shorter sequence.
CompareResultsNoLength(r, expected_value) ==
    IF IsListOrTuple(expected_value) /\ IsListOrTuple(r)
    THEN LET m == IF Len(r.items) < Len(expected_value.items)
                  THEN Len(r.items) ELSE Len(expected_value.items)
         IN  ~ZipMismatch(SubSeq(r.items, 1, m), SubSeq(expected_value.items, 1, m))
    ELSE ~(PyNe(expected_value, Wildcard) /\ PyNe(r, expected_value))

CompareResults(r, expected_value) ==
    IF IsListOrTuple(expected_value) /\ IsListOrTuple(r)
    THEN IF Len(expected_value.items) # Len(r.items)
         THEN FALSE
         ELSE ~ZipMismatch(r.items, expected_value.items)
    ELSE ~(PyNe(expected_value, Wildcard) /\ PyNe(r, expected_value))

(***************************************************************************)
(* GenericTesting._get_args_and_exception                                  *)
(***************************************************************************)
ParseInit == [raised |-> "None", new_args |-> <<>>, kwargs |-> EmptyDict,
              err |-> "None", expect |-> NoneV, not_expect |-> NoneV,
              raise_err |-> FALSE]

\* kwargs_copy = arg.copy(); del kwargs_copy["kwargs"]
KwargsCopy(arg) == [arg EXCEPT !.keys = @ \ {"kwargs"}, !.kwargs = NoneV]

\* ParseMarker without the assert on the value of "err".
ParseMarkerNoAssert(acc, arg) ==
    IF arg.isdict /\ "err" \in arg.keys
    THEN [acc EXCEPT !.err = arg.err]
    ELSE IF arg.isdict /\ "expect" \in arg.keys
    THEN [acc EXCEPT !.expect = arg.expect]
    ELSE IF arg.isdict /\ "not_expect" \in arg.keys
    THEN [acc EXCEPT !.not_expect = arg.not_expect]
    ELSE IF arg.isdict /\ "kwargs" \in arg.keys /\ arg.kwargs = TrueV
    THEN [acc EXCEPT !.kwargs = KwargsCopy(arg)]
    ELSE [acc EXCEPT !.new_args = Append(@, arg)]

\* The if / elif chain of one iteration of the loop over args.
ParseMarker(acc, arg) ==
    IF arg.isdict /\ "err" \in arg.keys
    THEN IF arg.err = "_" \/ IsSubclass(arg.err, "BaseException")
         THEN [acc EXCEPT !.err = arg.err]
         ELSE [acc EXCEPT !.raised = "AssertionError"]
    ELSE IF arg.isdict /\ "expect" \in arg.keys
    THEN [acc EXCEPT !.expect = arg.expect]
    ELSE IF arg.isdict /\ "not_expect" \in arg.keys
    THEN [acc EXCEPT !.not_expect = arg.not_expect]
    ELSE IF arg.isdict /\ "kwargs" \in arg.keys /\ arg.kwargs = TrueV
    THEN [acc EXCEPT !.kwargs = KwargsCopy(arg)]
    ELSE [acc EXCEPT !.new_args = Append(@, arg)]

\* The trailing if of the iteration, which reads "raise_err".
ParseRaiseErr(acc, arg) ==
    IF arg.isdict /\ "raise_err" \in arg.keys
    THEN IF arg.raise_err.kind = "bool"
         THEN [acc EXCEPT !.raise_err = (arg.raise_err = TrueV)]
         ELSE [acc EXCEPT !.raised = "AssertionError"]
    ELSE acc

ParseArg(acc, arg) ==
    IF acc.raised # "None" THEN acc
    ELSE LET a1 == ParseMarker(acc, arg)
         IN  IF a1.raised # "None" THEN a1 ELSE ParseRaiseErr(a1, arg)

RECURSIVE ParseFrom(_, _, _)
ParseFrom(acc, args, k) ==
    IF k > Len(args) THEN acc
    ELSE ParseFrom(ParseArg(acc, args[k]), args, k + 1)

GetArgsAndException(args) == ParseFrom(ParseInit, args, 1)

(***************************************************************************)
(* GenericTesting._test_function, from the call of func on: the try block, *)
(* the except block and the return.  The result is the pair (res, failure) *)
(* and, when an exception leaves the function, its class in raised.        *)
(***************************************************************************)
\* Classify with the expected value consulted before the expected exception.
ClassifyValueFirst(p, r) ==
    IF p.expect # NoneV
    THEN IF ~CompareResults(r, p.expect) THEN "value_mismatch" ELSE "None"
    ELSE IF p.err # "None" THEN "not_raised"
    ELSE IF p.not_expect # NoneV
    THEN IF CompareResults(r, p.not_expect) THEN "forbidden_match" ELSE "None"
    ELSE "None"

\* The if / elif chain of the try block after func returned r.
Classify(p, r) ==
    IF p.err # "None" THEN "not_raised"
    ELSE IF p.expect # NoneV
    THEN IF ~CompareResults(r, p.expect) THEN "value_mismatch" ELSE "None"
    ELSE IF p.not_expect # NoneV
    THEN IF CompareResults(r, p.not_expect) THEN "forbidden_match" ELSE "None"
    ELSE "None"

\* ExceptBlock without its closing "raise e".
ExceptBlockNoReraise(p, e, r, f) ==
    LET f2 == IF p.err = "None" THEN "unexpected_exception"
              ELSE IF p.err # "_" /\ ~IsSubclass(e, p.err) THEN "wrong_exception"
              ELSE f
    IN  [res |-> r, failure |-> f2, raised |-> "None"]

\* The except block, entered with exception class e and the failure so far.
ExceptBlock(p, e, r, f) ==
    LET f2 == IF p.err = "None" THEN "unexpected_exception"
              ELSE IF p.err # "_" /\ ~IsSubclass(e, p.err) THEN "wrong_exception"
              ELSE f
    IN  IF p.raise_err /\ f2 # "None"
        THEN [res |-> r, failure |-> f2, raised |-> e]
        ELSE [res |-> r, failure |-> f2, raised |-> "None"]

\* except Exception: the classes the except clause catches.
Caught(e) == IsSubclass(e, "Exception")

TestFunction(p, o) ==
    IF o.raises # "None"
    THEN IF Caught(o.raises)
         THEN ExceptBlock(p, o.raises, NoneV, "None")
         ELSE [res |-> NoneV, failure |-> "None", raised |-> o.raises]
    ELSE LET f1 == Classify(p, o.value)
         IN  IF p.raise_err /\ f1 # "None"
             THEN ExceptBlock(p, "Exception", o.value, f1)
             ELSE [res |-> o.value, failure |-> f1, raised |-> "None"]

(***************************************************************************)
(* GenericTesting.run_tests                                                *)
(***************************************************************************)
NoCall == [args |-> <<>>, kwargs |-> EmptyDict]
CRIdle == [pc |-> "idle", res |-> NoneV, expected_value |-> NoneV, ret |-> FALSE]
IHIdle == [pc |-> "idle", iterable1 |-> NoneV, iterable2 |-> NoneV,
           compare_type |-> TRUE, compare_size |-> TRUE, soft_compare |-> FALSE,
           raised |-> "None", ret |-> FALSE]

\* A GenericTesting object, no run started.
Init ==
    /\ pc = "idle"
    /\ n = 0
    /\ print_args = FALSE
    /\ i = 0
    /\ failed_tests = <<>>
    /\ test = <<>>
    /\ parsed = ParseInit
    /\ calls = <<>>
    /\ call = NoCall
    /\ outcome = NoOutcome
    /\ res = NoneV
    /\ failure = "None"
    /\ propagated = "None"
    /\ cr = CRIdle
    /\ ih = IHIdle

\* run_tests is entered with a list of len(test_cases) cases: failed_tests = [].
RunTests ==
    /\ pc = "idle"
    /\ \E len \in 0..MaxCases : n' = len
    /\ \E pa \in BOOLEAN : print_args' = pa
    /\ i' = 0
    /\ failed_tests' = <<>>
    /\ pc' = "loop"
    /\ UNCHANGED <<test, parsed, calls, call, outcome, res, failure, propagated, cr, ih>>

\* The for loop takes the next case of the list (a list, as the assert asks).
NextCase ==
    /\ pc = "loop"
    /\ i < n
    /\ \E t \in Cases : test' = t
    /\ pc' = "parse"
    /\ UNCHANGED <<n, print_args, i, failed_tests, parsed, calls, call, outcome,
                   res, failure, propagated, cr, ih>>

\* _get_args_and_exception(test): by run_tests when print_args is set, then by
\* _test_function; both calls give the same, and a failed assert leaves run_tests.
ParseCase ==
    /\ pc = "parse"
    /\ LET p == GetArgsAndException(test)
       IN  IF p.raised # "None"
           THEN /\ pc' = "raised"
                /\ propagated' = p.raised
                /\ UNCHANGED parsed
           ELSE /\ pc' = "call"
                /\ parsed' = p
                /\ UNCHANGED propagated
    /\ UNCHANGED <<n, print_args, i, failed_tests, test, calls, call, outcome,
                   res, failure, cr, ih>>

\* _test_function invokes func once and classifies what it did.
CallFunc ==
    /\ pc = "call"
    /\ \E o \in Outcomes :
         LET t == TestFunction(parsed, o)
         IN  /\ outcome' = o
             /\ res' = t.res
             /\ failure' = t.failure
             /\ propagated' = t.raised
             /\ pc' = IF t.raised # "None" THEN "raised" ELSE "report"
    /\ calls' = Append(calls, i + 1)
    /\ call' = [args |-> parsed.new_args, kwargs |-> parsed.kwargs]
    /\ UNCHANGED <<n, print_args, i, failed_tests, test, parsed, cr, ih>>

\* Report appending the 0-based loop index instead of i + 1.
ReportZeroBased ==
    /\ pc = "report"
    /\ failed_tests' = IF failure # "None" THEN Append(failed_tests, i)
                       ELSE failed_tests
    /\ i' = i + 1
    /\ pc' = "loop"
    /\ test' = <<>>
    /\ parsed' = ParseInit
    /\ call' = NoCall
    /\ outcome' = NoOutcome
    /\ res' = NoneV
    /\ failure' = "None"
    /\ UNCHANGED <<n, print_args, calls, propagated, cr, ih>>

\* run_tests records the result of the case and goes on with the loop.
Report ==
    /\ pc = "report"
    /\ failed_tests' = IF failure # "None" THEN Append(failed_tests, i + 1)
                       ELSE failed_tests
    /\ i' = i + 1
    /\ pc' = "loop"
    /\ test' = <<>>
    /\ parsed' = ParseInit
    /\ call' = NoCall
    /\ outcome' = NoOutcome
    /\ res' = NoneV
    /\ failure' = "None"
    /\ UNCHANGED <<n, print_args, calls, propagated, cr, ih>>

\* The loop is over: the summary is printed and run_tests returns.
Finish ==
    /\ pc = "loop"
    /\ i >= n
    /\ pc' = "done"
    /\ UNCHANGED <<n, print_args, i, failed_tests, test, parsed, calls, call,
                   outcome, res, failure, propagated, cr, ih>>

Next == RunTests \/ NextCase \/ ParseCase \/ CallFunc \/ Report \/ Finish

Spec == Init /\ [][Next]_vars

(***************************************************************************)
(* Properties of run_tests (specification Spec).                           *)
(***************************************************************************)
\* func raised in the latest invocation / returned from it.
FuncRaised == outcome.raises \notin {"None", "NoCall"}
FuncReturned == outcome.raises = "None"
\* The current case has been through _test_function.
Classified == pc \in {"report", "raised"} /\ outcome # NoOutcome

\* The positions of the case's records with the given key, as the parser's
\* if / elif chain sees them, and the value of the last one.
ErrMarkers(t) == {k \in 1..Len(t) : t[k].isdict /\ "err" \in t[k].keys}
ExpectMarkers(t) ==
    {k \in 1..Len(t) : t[k].isdict /\ "expect" \in t[k].keys /\ "err" \notin t[k].keys}
LastOf(S) == CHOOSE k \in S : \A j \in S : j <= k

\* A keyed record carrying a reserved marker key.
IsMarker(a) ==
    /\ a.isdict
    /\ \/ a.keys \cap {"err", "expect", "not_expect", "raise_err"} # {}
       \/ ("kwargs" \in a.keys /\ a.kwargs = TrueV)

\* The case would FAIL: a fault with no or a non-matching expected exception,
\* an expected exception not raised, an expected value mismatched, or a
\* forbidden value matched.
WouldFail(p, o) ==
    \/ /\ o.raises \notin {"None", "NoCall"}
       /\ \/ p.err = "None"
          \/ (p.err # "_" /\ ~IsSubclass(o.raises, p.err))
    \/ /\ o.raises = "None"
       /\ \/ p.err # "None"
          \/ (p.err = "None" /\ p.expect # NoneV /\ ~CompareResults(o.value, p.expect))
          \/ (p.err = "None" /\ p.expect = NoneV /\ p.not_expect # NoneV
              /\ CompareResults(o.value, p.not_expect))

C2_FaultsCaught ==
    (Classified /\ FuncRaised /\ ~parsed.raise_err)
        => (pc = "report" /\ propagated = "None")

\* C3: no record carrying a reserved marker key is among the positional
\* arguments the parser returns or func is called with, and neither "kwargs"
\* nor "raise_err" is among the keyword arguments.
C3_MarkersNotArguments ==
    /\ \A k \in 1..Len(parsed.new_args) : ~IsMarker(parsed.new_args[k])
    /\ parsed.kwargs.keys \cap {"kwargs", "raise_err"} = {}
    /\ \A k \in 1..Len(call.args) : ~IsMarker(call.args[k])
    /\ call.kwargs.keys \cap {"kwargs", "raise_err"} = {}

\* C4: a case with an expect marker and no err marker whose call returns is
\* PASS exactly when the result compares equal to the expected value.
C4_ExpectDecides ==
    (Classified /\ FuncReturned /\ ExpectMarkers(test) # {} /\ ErrMarkers(test) = {})
        => ((failure = "None")
              <=> CompareResults(outcome.value, test[LastOf(ExpectMarkers(test))].expect))

\* C5: with raise_err false, a fault raised by func gives FAIL when no
\* exception is expected or the fault is not of the expected kind, and PASS
\* when the expected exception is the wildcard or a kind the fault belongs to.
C5_FaultClassification ==
    (Classified /\ FuncRaised /\ ~parsed.raise_err)
        => /\ pc = "report"
           /\ (failure # "None")
                <=> \/ parsed.err = "None"
                    \/ (parsed.err # "_" /\ ~IsSubclass(outcome.raises, parsed.err))

\* C6: when func returns and the case has an err marker, the case is FAIL,
\* whatever its other markers and whatever was returned.
C6_ErrExpectedButReturned ==
    (Classified /\ FuncReturned /\ ErrMarkers(test) # {})
        => (failure # "None" /\ (pc = "report" \/ parsed.raise_err))

\* func returned 1, which the case's expect marker asks for, and the case has
\* an err marker too: the case failed.
C6_Witness ==
    /\ pc = "report"
    /\ outcome = Returns(IntV("1"))
    /\ ErrMarkers(test) # {} /\ parsed.expect = IntV("1")
    /\ failure = "not_raised"

(***************************************************************************)
(* _compare_results applied to drawn inputs (specification SpecCR).        *)
(***************************************************************************)
RunIdle ==
    /\ pc = "idle" /\ n = 0 /\ print_args = FALSE /\ i = 0
    /\ failed_tests = <<>> /\ test = <<>> /\ parsed = ParseInit
    /\ calls = <<>> /\ call = NoCall /\ outcome = NoOutcome
    /\ res = NoneV /\ failure = "None" /\ propagated = "None"

\* Results and expected values: scalars, and lists and tuples of at most
\* MaxLen scalars, the wildcard among them.
CRScalars == {IntV("1"), IntV("2"), Wildcard, NoneV}
CRValues ==
    CRScalars
    \cup {ListV(s) : s \in SeqsUpTo({IntV("1"), IntV("2"), Wildcard}, MaxLen)}
    \cup {TupleV(s) : s \in SeqsUpTo({IntV("1"), IntV("2"), Wildcard}, MaxLen)}

InitCR ==
    /\ RunIdle
    /\ ih = IHIdle
    /\ \E r \in CRValues, e \in CRValues :
         cr = [pc |-> "call", res |-> r, expected_value |-> e, ret |-> FALSE]

CompareResultsCall ==
    /\ cr.pc = "call"
    /\ cr' = [cr EXCEPT !.pc = "done",
                        !.ret = CompareResults(cr.res, cr.expected_value)]
    /\ UNCHANGED <<runVars, ih>>

NextCR == CompareResultsCall

SpecCR == InitCR /\ [][NextCR]_vars

\* C7 as stated: the comparison is true whenever the wildcard is either the
\* expected value or the result.
C7_WildcardIdentity ==
    (cr.pc = "done" /\ (cr.expected_value = Wildcard \/ cr.res = Wildcard)) => cr.ret

\* C7 as amended: the comparison is true whenever the wildcard is the expected
\* value; with the wildcard as the result it is true only when the expected
\* value is the wildcard too.
C7_WildcardExpected ==
    cr.pc = "done"
        => /\ cr.expected_value = Wildcard => cr.ret
           /\ cr.res = Wildcard => (cr.ret <=> cr.expected_value = Wildcard)

\* The wildcard as the expected value matched a tuple.
C7_Witness ==
    /\ cr.pc = "done"
    /\ cr.expected_value = Wildcard
    /\ cr.res = TupleV(<<IntV("1"), IntV("2")>>)
    /\ cr.ret

\* C8: a list or tuple expectation and a list or tuple result of different
\* lengths never match.
C8_CompositeLength ==
    (/\ cr.pc = "done"
     /\ IsListOrTuple(cr.expected_value) /\ IsListOrTuple(cr.res)
     /\ Len(cr.expected_value.items) # Len(cr.res.items))
        => ~cr.ret

\* The expectation [1] against the result (1, 2): every zipped position agrees
\* and the lengths differ.
C8_Witness ==
    /\ cr.pc = "done"
    /\ cr.expected_value = ListV(<<IntV("1")>>)
    /\ cr.res = TupleV(<<IntV("1"), IntV("2")>>)
    /\ ~cr.ret

(***************************************************************************)
(* iterable_handler (test_generator.py)                                    *)
(***************************************************************************)
FloatV(v) == Scalar("float", v)
NpIntV(v) == Scalar("int_", v)
SetV(s) == Container("set", s)
ArrayV(s) == Container("ndarray", s)
DictV(ks, vs) == [kind |-> "dict", val |-> "", items |-> vs, keys |-> ks]

\* ITERABLES = [list, tuple, dict, set, np.ndarray]
ITERABLES == {"list", "tuple", "dict", "set", "ndarray"}

\* The target types each source type of ITER_CONVERSIONS has an entry for;
\* dict is not among the source types.
ITER_CONVERSIONS ==
    [list |-> {"tuple", "set", "ndarray"},
     tuple |-> {"list", "set", "ndarray"},
     set |-> {"list", "tuple", "ndarray"},
     ndarray |-> {"list", "tuple", "set"}]

\* The same for SINGLE_CONVERSIONS.
SINGLE_CONVERSIONS ==
    [int |-> {"float", "int_", "float_"},
     float |-> {"int", "int_", "float_"},
     int_ |-> {"int", "float", "float_"}]

\* iterable_handler.length
Length(v) ==
    IF v.kind \in {"list", "tuple", "set"} THEN Len(v.items)
    ELSE IF v.kind = "dict" THEN Len(v.keys)
    ELSE IF v.kind = "ndarray" THEN Len(v.items)
    ELSE 1

IsIterable(v) == v.kind \in ITERABLES

\* What iterating over a value yields: the keys of a dict, the elements of
\* any other container.
Iterate(v) == IF v.kind = "dict" THEN v.keys ELSE v.items

\* A conversion lookup gives a function (found), None (not found), or raises.
Found == [raised |-> "None", found |-> TRUE]
NotFound == [raised |-> "None", found |-> FALSE]
LookupRaised(e) == [raised |-> e, found |-> FALSE]

FindConversionIterable(iter1, iter2) ==
    IF iter1.kind = iter2.kind THEN Found
    ELSE IF iter1.kind \in ITERABLES /\ iter2.kind \in ITERABLES
    THEN IF iter1.kind \notin DOMAIN ITER_CONVERSIONS
         THEN LookupRaised("KeyError")
         ELSE IF iter2.kind \in ITER_CONVERSIONS[iter1.kind] THEN Found ELSE NotFound
    ELSE NotFound

FindSingletonConv(v1, v2) ==
    IF v1.kind = v2.kind THEN Found
    ELSE IF v1.kind \in DOMAIN SINGLE_CONVERSIONS
    THEN IF v2.kind \in SINGLE_CONVERSIONS[v1.kind] THEN Found ELSE NotFound
    ELSE NotFound

FindConversion(v1, v2) ==
    LET conv == FindConversionIterable(v1, v2)
    IN  IF conv.raised # "None" THEN conv
        ELSE IF ~conv.found THEN FindSingletonConv(v1, v2)
        ELSE conv

\* The result of compare: the boolean it returns, or the exception it raises.
Ret(b) == [raised |-> "None", eq |-> b]
CompareRaised(e) == [raised |-> e, eq |-> FALSE]

\* TypeStep with the strict test on the values instead of on their types.
TypeStepValueEq(eq, a, b, compare_type, soft_compare) ==
    IF ~compare_type THEN Ret(eq)
    ELSE IF ~soft_compare THEN Ret(eq /\ a = b)
    ELSE IF ~eq THEN Ret(FALSE)
    ELSE LET conv == FindConversion(a, b)
         IN  IF conv.raised # "None" THEN CompareRaised(conv.raised)
             ELSE Ret(conv.found)

\* TypeStep with the test of soft_compare inverted.
TypeStepInverted(eq, a, b, compare_type, soft_compare) ==
    IF ~compare_type THEN Ret(eq)
    ELSE IF soft_compare THEN Ret(eq /\ a.kind = b.kind)
    ELSE IF ~eq THEN Ret(FALSE)
    ELSE LET conv == FindConversion(a, b)
         IN  IF conv.raised # "None" THEN CompareRaised(conv.raised)
             ELSE Ret(conv.found)

\* The compare_type step; "eq and ..." looks the conversion up only when eq
\* is still true.
TypeStep(eq, a, b, compare_type, soft_compare) ==
    IF ~compare_type THEN Ret(eq)
    ELSE IF ~soft_compare THEN Ret(eq /\ a.kind = b.kind)
    ELSE IF ~eq THEN Ret(FALSE)
    ELSE LET conv == FindConversion(a, b)
         IN  IF conv.raised # "None" THEN CompareRaised(conv.raised)
             ELSE Ret(conv.found)

RECURSIVE Compare(_, _, _, _, _)
RECURSIVE CompareZip(_, _, _, _, _, _, _)

\* CompareZip without the recursive calls: the elements are never compared.
CompareZipShallow(s1, s2, k, acc, compare_type, compare_size, soft_compare) == acc

\* The loop over zip(iterable1, iterable2) from position k on; "eq and ..."
\* makes no recursive call once eq is false.
CompareZip(s1, s2, k, acc, compare_type, compare_size, soft_compare) ==
    IF acc.raised # "None" \/ k > Len(s1) \/ k > Len(s2) THEN acc
    ELSE IF ~acc.eq
    THEN acc
    ELSE CompareZip(s1, s2, k + 1,
                    Compare(s1[k], s2[k], compare_type, compare_size, soft_compare),
                    compare_type, compare_size, soft_compare)

\* iterable_handler.compare
Compare(iterable1, iterable2, compare_type, compare_size, soft_compare) ==
    LET eq0 == IF compare_size THEN Length(iterable1) = Length(iterable2) ELSE TRUE
        t == TypeStep(eq0, iterable1, iterable2, compare_type, soft_compare)
    IN  IF t.raised # "None" THEN t
        ELSE IF IsIterable(iterable1) /\ IsIterable(iterable2)
        THEN CompareZip(Iterate(iterable1), Iterate(iterable2), 1, t,
                        compare_type, compare_size, soft_compare)
        ELSE t

(***************************************************************************)
(* iterable_handler.compare applied to drawn inputs (specification SpecIH).*)
(***************************************************************************)
IHScalars == {IntV("1"), IntV("2"), FloatV("1.0"), StrV("a")}
IHElems == {IntV("1"), IntV("2"), FloatV("1.0")}
\* Prefixes of the key orders the dicts are built with.
KeyOrders == {<<StrV("a"), StrV("b"), StrV("c")>>,
              <<TupleV(<<IntV("1"), IntV("2")>>), StrV("b"), StrV("c")>>}
\* Strictly ascending sequences: the iteration order of a set of small ints.
Ascending(s) == \A k \in 1..Len(s) : \A j \in 1..Len(s) : k < j => s[k].val # s[j].val
NestElems == {IntV("1"), ListV(<<IntV("1")>>), ListV(<<IntV("1"), IntV("2")>>),
              ArrayV(<<NpIntV("1"), NpIntV("2")>>)}

IHValues ==
    IHScalars
    \cup {ListV(s) : s \in SeqsUpTo(IHElems, MaxLen)}
    \cup {TupleV(s) : s \in SeqsUpTo(IHElems, MaxLen)}
    \cup {SetV(s) : s \in {q \in SeqsUpTo({IntV("1"), IntV("2")}, MaxLen) : Ascending(q)}}
    \cup {ArrayV(s) : s \in SeqsUpTo({NpIntV("1"), NpIntV("2")}, MaxLen)}
    \cup {DictV(SubSeq(ks, 1, Len(vs)), vs) :
            ks \in KeyOrders, vs \in SeqsUpTo({IntV("1"), IntV("2")}, MaxLen)}
    \cup {TupleV(s) : s \in {q \in SeqsUpTo(NestElems, MaxLen) :
                              \E k \in 1..Len(q) : IsIterable(q[k])}}

InitIH ==
    /\ RunIdle
    /\ cr = CRIdle
    /\ \E a \in IHValues, b \in IHValues, ct \in BOOLEAN, cs \in BOOLEAN, sc \in BOOLEAN :
         ih = [pc |-> "call", iterable1 |-> a, iterable2 |-> b,
               compare_type |-> ct, compare_size |-> cs, soft_compare |-> sc,
               raised |-> "None", ret |-> FALSE]

CompareCall ==
    /\ ih.pc = "call"
    /\ LET c == Compare(ih.iterable1, ih.iterable2, ih.compare_type,
                        ih.compare_size, ih.soft_compare)
       IN  ih' = [ih EXCEPT !.pc = "done", !.raised = c.raised, !.ret = c.eq]
    /\ UNCHANGED <<runVars, cr>>

NextIH == CompareCall

SpecIH == InitIH /\ [][NextIH]_vars

\* A conversion path from the type of a to the type of b: the same type, or an
\* entry of one of the two conversion tables.
PathExists(a, b) ==
    \/ a.kind = b.kind
    \/ (a.kind \in DOMAIN ITER_CONVERSIONS /\ b.kind \in ITER_CONVERSIONS[a.kind])
    \/ (a.kind \in DOMAIN SINGLE_CONVERSIONS /\ b.kind \in SINGLE_CONVERSIONS[a.kind])

\* C9: compare never raises, whatever the values and the flags, and in soft
\* mode a missing conversion path gives false.
C9_CompareNeverRaises ==
    ih.pc = "done"
        => /\ ih.raised = "None"
           /\ (ih.compare_type /\ ih.soft_compare
               /\ ~PathExists(ih.iterable1, ih.iterable2)) => ~ih.ret

\* C10: with compare_type set and soft_compare not set, two values of
\* different kinds compare false, for either compare_size and any contents.
C10_StrictTypeAsymmetry ==
    (/\ ih.pc = "done"
     /\ ih.compare_type /\ ~ih.soft_compare
     /\ ih.iterable1.kind # ih.iterable2.kind)
        => (ih.raised = "None" /\ ~ih.ret)

\* A tuple and a list with the same elements, sizes not compared: false.
C10_Witness ==
    /\ ih.pc = "done"
    /\ ih.compare_type /\ ~ih.soft_compare /\ ~ih.compare_size
    /\ ih.iterable1 = TupleV(<<IntV("1"), IntV("2")>>)
    /\ ih.iterable2 = ListV(<<IntV("1"), IntV("2")>>)
    /\ ih.raised = "None" /\ ~ih.ret

\* A list of m equal scalars: a value of length m.
ListOfLength(m) == ListV([k \in 1..m |-> IntV("1")])

\* The lengths agree at every level the element-wise recursion reaches.
RECURSIVE LengthsAgree(_, _)
LengthsAgree(a, b) ==
    /\ Length(a) = Length(b)
    /\ (IsIterable(a) /\ IsIterable(b))
         => \A k \in 1..Len(Iterate(a)) :
              k <= Len(Iterate(b)) => LengthsAgree(Iterate(a)[k], Iterate(b)[k])

\* C11 as stated: with compare_type unset and compare_size set the result is
\* fixed by length(a) and length(b) alone, so it is the result for two lists
\* of scalars of these lengths.
C11_LengthsAlone ==
    (ih.pc = "done" /\ ~ih.compare_type /\ ih.compare_size)
        => /\ ih.raised = "None"
           /\ ih.ret = Compare(ListOfLength(Length(ih.iterable1)),
                               ListOfLength(Length(ih.iterable2)),
                               FALSE, TRUE, ih.soft_compare).eq

\* C11 as amended: with compare_type unset and compare_size set the result is
\* fixed by lengths alone, those of a and b and of the elements the recursion
\* pairs: it is true exactly when the lengths agree at every level.
C11_LengthsAtEveryLevel ==
    (ih.pc = "done" /\ ~ih.compare_type /\ ih.compare_size)
        => /\ ih.raised = "None"
           /\ ih.ret <=> LengthsAgree(ih.iterable1, ih.iterable2)

\* Two tuples of length 1 whose only elements are lists of lengths 1 and 2:
\* false, although the tuples' own lengths agree.
C11_Witness ==
    /\ ih.pc = "done" /\ ~ih.compare_type /\ ih.compare_size
    /\ ih.iterable1 = TupleV(<<ListV(<<IntV("1")>>)>>)
    /\ ih.iterable2 = TupleV(<<ListV(<<IntV("1"), IntV("2")>>)>>)
    /\ ih.raised = "None" /\ ~ih.ret

\* Neither container nor wildcard.
IsPlainScalar(v) == ~IsIterable(v) /\ v # Wildcard

\* C12 as stated: two different scalars of the same kind compare false.
C12_ScalarsByValue ==
    (/\ ih.pc = "done"
     /\ IsPlainScalar(ih.iterable1) /\ IsPlainScalar(ih.iterable2)
     /\ ih.iterable1.kind = ih.iterable2.kind
     /\ ih.iterable1 # ih.iterable2)
        => (ih.raised = "None" /\ ~ih.ret)

\* Lists or tuples of one kind and one length that hold scalars of the same
\* kind at every position.
SameKindsFlat(a, b) ==
    /\ a.kind = b.kind /\ a.kind \in {"list", "tuple"}
    /\ Len(a.items) = Len(b.items)
    /\ \A k \in 1..Len(a.items) :
         /\ IsPlainScalar(a.items[k]) /\ IsPlainScalar(b.items[k])
         /\ a.items[k].kind = b.items[k].kind

\* C12 as amended: scalars are not compared by value: two scalars of the same
\* kind compare true whatever their values, and so do two containers of one
\* kind and length that hold scalars of the same kinds position by position.
C12_ScalarsByKind ==
    (/\ ih.pc = "done"
     /\ \/ /\ IsPlainScalar(ih.iterable1) /\ IsPlainScalar(ih.iterable2)
           /\ ih.iterable1.kind = ih.iterable2.kind
        \/ SameKindsFlat(ih.iterable1, ih.iterable2))
        => (ih.raised = "None" /\ ih.ret)

\* The lists [1, 2] and [2, 1], compared with the default flags: true.
C12_Witness ==
    /\ ih.pc = "done"
    /\ ih.compare_type /\ ih.compare_size /\ ~ih.soft_compare
    /\ ih.iterable1 = ListV(<<IntV("1"), IntV("2")>>)
    /\ ih.iterable2 = ListV(<<IntV("2"), IntV("1")>>)
    /\ ih.raised = "None" /\ ih.ret

(***************************************************************************)
(* Further properties of run_tests (specification Spec).                   *)
(***************************************************************************)
\* The case has an err marker that names neither the wildcard nor a fault type.
BadErr(t) ==
    \E k \in ErrMarkers(t) :
        t[k].err # "_" /\ ~IsSubclass(t[k].err, "BaseException")

\* C13: a case with an err marker naming neither the wildcard nor a fault type
\* makes the parser raise: the exception leaves run_tests, func is not
\* invoked for the case, and the case is not recorded among the failed tests.
C13_BadErrMarkerRaises ==
    (pc \in {"call", "report", "raised"} /\ BadErr(test))
        => /\ pc = "raised"
           /\ propagated = "AssertionError"
           /\ outcome = NoOutcome
           /\ \A k \in 1..Len(calls) : calls[k] <= i
           /\ \A k \in 1..Len(failed_tests) : failed_tests[k] <= i

\* The second case of a run is [1, {"err": int}]: the parser raised, func was
\* invoked for the first case only.
C13_Witness ==
    /\ pc = "raised" /\ i = 1
    /\ test = <<Arg(IntV("1")), ErrDict("int")>>
    /\ propagated = "AssertionError"
    /\ calls = <<1>>
    /\ outcome = NoOutcome

\* The sequence 1, 2, ..., Len(s) / a strictly ascending sequence.
CountsUp(s) == \A k \in 1..Len(s) : s[k] = k
StrictlyAscending(s) == \A k \in 1..Len(s) : \A j \in 1..Len(s) : k < j => s[k] < s[j]

Rekeyed(d) ==
    DictV(SubSeq(<<StrV("a"), StrV("b"), StrV("c")>>, 1, Len(d.keys)), d.items)

\* C15: comparing a mapping with a container pairs the mapping's values with
\* the container's elements, so the result is the same whatever the keys are.
C15_KeysDoNotMatter ==
    (/\ ih.pc = "done"
     /\ ih.iterable1.kind = "dict"
     /\ IsIterable(ih.iterable2) /\ ih.iterable2.kind # "dict")
        => LET c == Compare(Rekeyed(ih.iterable1), ih.iterable2, ih.compare_type,
                            ih.compare_size, ih.soft_compare)
           IN  ih.raised = c.raised /\ ih.ret = c.eq

(***************************************************************************)
(* Properties of the not_expect and raise_err markers (specification Spec).*)
(***************************************************************************)
\* The positions of the case's records the parser reads "not_expect" from.
NotExpectMarkers(t) ==
    {k \in 1..Len(t) : /\ t[k].isdict
                       /\ "not_expect" \in t[k].keys
                       /\ t[k].keys \cap {"err", "expect"} = {}}

\* Some position of the forbidden composite is no wildcard and equals the
\* element of the result at that position.
SomePositionMatches(r, ne) ==
    \E k \in 1..Len(ne) : ne[k] # Wildcard /\ ne[k] = r[k]

\* C16: a case whose only expectation is a composite not_expect fails when
\* func returns a sequence of the same length that equals the forbidden
\* composite in at least one position that is no wildcard.
C16_ForbiddenPositionFails ==
    (/\ Classified /\ FuncReturned
     /\ ErrMarkers(test) = {} /\ ExpectMarkers(test) = {}
     /\ NotExpectMarkers(test) # {}
     /\ IsListOrTuple(parsed.not_expect) /\ IsListOrTuple(outcome.value)
     /\ Len(parsed.not_expect.items) = Len(outcome.value.items)
     /\ SomePositionMatches(outcome.value.items, parsed.not_expect.items))
        => failure # "None"

\* C17: a case whose raise_err flag is true and whose classification is PASS
\* is reported without a failure and nothing is raised: run_tests is at the
\* point where it records the result and goes on to the next case.
C17_NoEscalationOnPass ==
    (Classified /\ parsed.raise_err /\ ~WouldFail(parsed, outcome))
        => (pc = "report" /\ failure = "None" /\ propagated = "None")

\* C18: when a case carries an expect record and a separate not_expect
\* record, no err record, and the call returns, the case is PASS exactly when
\* the result matches the expected value, and the outcome is the one the same
\* case gives with the forbidden value left out.
C18_OnlyExpectDecides ==
    (/\ Classified /\ FuncReturned
     /\ ErrMarkers(test) = {}
     /\ ExpectMarkers(test) # {} /\ NotExpectMarkers(test) # {})
        => /\ (failure = "None")
                <=> CompareResults(outcome.value,
                                   test[LastOf(ExpectMarkers(test))].expect)
           /\ failure = TestFunction([parsed EXCEPT !.not_expect = NoneV],
                                     outcome).failure

====
